---- MODULE Spec2Model ----
(***************************************************************************)
(* Replay memory and DQN update loop of the deep-RL notebooks.             *)
(*                                                                         *)
(* ReplayMemory (12-DQN-pytorch.ipynb) is the deque-backed experience      *)
(* replay memory; the DQN agent is the algorithm the same notebook gives   *)
(* in its text (value network, target network, Bellman targets).           *)
(* The Monte-Carlo agent's action selection and returns                    *)
(* (8-MonteCarlo.ipynb), the interaction loop (7-Gym.ipynb) and the        *)
(* on-policy loop (13-PPO.ipynb) each have their own specification.        *)
(***************************************************************************)
EXTENDS Integers, Sequences, FiniteSets, TLC

\* ------------------------------------------------------------------ bounds

\* capacity handed to ReplayMemory(capacity)
Capacity == 3
\* number of append calls a run makes at most
MaxAppends == 4
\* largest batch_size handed to sample
MaxBatch == 2
\* number of different argument tuples the caller hands to append
NumInputs == 4

\* environment steps a training run makes at most
MaxSteps == 3
\* batch_size of the DQN agent
BatchSize == 2
\* the target network is updated every T_target steps
T_target == 3
\* an update happens every T_train steps
T_train == 1
\* the discount factor gamma is a multiple of 1/GammaDen in [0, 1]
GammaDen == 2
\* the environment truncates an episode after this many steps
MaxEpisodeSteps == 3

\* rng.random() and epsilon are multiples of 1/EpsDen
EpsDen == 2

\* longest episode handed to the Monte-Carlo update
MaxEpisodeLen == 3
\* the discount factor of the Monte-Carlo agent is a multiple of 1/ReturnDen
\* (gamma = 0.9 is 9)
ReturnDen == 10

\* episodes the interaction loop runs
NumEpisodes == 3

\* iterations of the on-policy loop (N)
NumIterations == 3
\* transitions the buffer of the collector is preallocated for
BufferSize == 2
\* most steps one collect call gathers
MaxCollect == 3

\* RandomEnv: most states, largest max_episode_steps, and most step calls
\* after one reset
MaxNbStates == 2
MaxLimit == 3
MaxCalls == 7

\* tabular agents: episodes of the training loop, and the number of steps
\* after which their environment truncates an episode
NumTabEpisodes == 2
TabMaxSteps == 2
\* Q-learning: gamma = 0.9 (in units of 1/ReturnDen), alpha = 0.1 = 1/AlphaDen
TabGamma == 9
AlphaDen == 10
\* Monte-Carlo: alpha = 0.01 = 1/AlphaDenMC
AlphaDenMC == 100

\* train(): minibatches of the loader, samples per minibatch (the last one
\* has a single sample), epochs
NumTrainBatches == 3
TrainBatchSize == 2
NumEpochs == 2

\* GymRecorder: frames rendered in all, frames of one env.render(), calls of
\* make_video
MaxFrames == 4
MaxRendered == 2
MaxVideoCalls == 3

\* the library DQN loop, with the numbers of the notebook:
\* VectorReplayBuffer(20000, 10), collect(n_step=1000, random=True),
\* range(1000), collect(n_step=100), batch_size=64
LibTotalSize == 20000
LibWorkers == 10
LibPrefill == 1000
LibIterations == 1000
LibCollect == 100
LibBatchSize == 64

\* The caller's arrays: one ndarray, one CPU tensor, one tensor on a device.
Objs == {1, 2, 3}
\* The contents of an array, abstracted to one number.
Values == {0, 1}
Actions == {0, 1}
Rewards == {0, 1}
\* The observations of the environment, and the arrays that carry them.
EnvStates == {0, 1}
ObsObj(s) == 4 + s
ObsObjs == {ObsObj(s) : s \in EnvStates}

\* ------------------------------------------------------------------ state

VARIABLES
    memory,     \* self.memory: the deque of Transitions, oldest first
    heap,       \* contents of the caller's arrays/tensors, by object
    calls,      \* number of append calls made so far
    history,    \* every Transition handed to the deque, in call order
    result,     \* outcome of the last append/sample call
    theta,        \* parameters of the value network
    theta_target, \* parameters of the target network
    snapshots,    \* every value the value network's parameters have had
    gamma,        \* discount factor, in units of 1/GammaDen
    steps,        \* t: number of actions made since the start
    pc,           \* position of the training loop within one iteration
    env,          \* the environment: current observation, step of the episode
    pending,      \* the transition observed by the last act, not yet stored
    update,       \* what the last update call computed
    synced,       \* TRUE right after a step that copied theta into theta_target
    since_sync,   \* update calls made since theta was last copied into theta_target
    updates,      \* update calls made since the start
    Qtable,       \* self.Q of the Monte-Carlo agent: a score per state and action
    epsilon,      \* its exploration parameter, in units of 1/EpsDen
    choice,       \* the last action selection: state, random draw, outcome
    episode,      \* the rewards r_1 .. r_T of the episode handed to update
    discount,     \* gamma of the Monte-Carlo agent, in units of 1/ReturnDen
    return_state, \* the return of the transition processed last
    returns,      \* the returns computed so far, by transition
    cursor,       \* the transition the backward iteration processes next
    naive,        \* the naive double loop: its next transition, its returns
    loop,         \* the interaction loop: its position, its locals, its environment
    ppo,          \* the on-policy loop: position, iteration, policy, collector buffer
    renv,         \* a RandomEnv, its caller and the outcome of the last call
    tab,          \* a tabular agent (Q-learning or Monte-Carlo) and its training loop
    trainer,      \* train() of a network: position, gradients, optimizer steps, metrics
    recorder,     \* a GymRecorder: its frames, the videos made
    lib           \* the library DQN loop: position, iteration, transitions stored

memvars == <<memory, calls, history, result>>
agentvars ==
    <<theta, theta_target, snapshots, gamma, steps, pc, env, pending, update, synced,
      since_sync, updates>>
selvars == <<Qtable, epsilon, choice>>
mcvars == <<episode, discount, return_state, returns, cursor, naive>>
morevars == <<renv, tab, trainer, recorder, lib>>
notRandomEnv == <<selvars, mcvars, loop, ppo, tab, trainer, recorder, lib>>
notTabular == <<selvars, mcvars, loop, ppo, renv, trainer, recorder, lib>>
notTrainer == <<selvars, mcvars, loop, ppo, renv, tab, recorder, lib>>
notRecorder == <<selvars, mcvars, loop, ppo, renv, tab, trainer, lib>>
notLibrary == <<selvars, mcvars, loop, ppo, renv, tab, trainer, recorder>>
othervars == <<selvars, mcvars, loop, ppo, morevars>>
vars == <<memory, heap, calls, history, result,
          theta, theta_target, snapshots, gamma, steps, pc, env, pending, update,
          synced, since_sync, updates, othervars>>

\* ------------------------------------------------------- arrays and tensors

\* The three kinds of object a caller can pass as state / next_state.
ObjKind(o) ==
    CASE o = 2 -> "cpu_tensor"
      [] o = 3 -> "device_tensor"
      [] OTHER -> "ndarray"

\* A stored field is either the very array the caller holds (it shares its
\* memory) or a private copy of its contents.
Ref(o) == <<"ref", o>>
Val(v) == <<"val", v>>

\* What append keeps for state / next_state.  An ndarray is kept as it is;
\* Tensor.numpy(force=True) of a CPU tensor is an ndarray sharing the tensor's
\* storage; of a tensor on another device it is a host copy.
ToNumpy(o, h) ==
    IF ObjKind(o) = "device_tensor" THEN Val(h[o]) ELSE Ref(o)

\* The contents of a stored field in heap h.
Deref(f, h) == IF f[1] = "ref" THEN h[f[2]] ELSE f[2]

Transition(s, a, r, ns, d) ==
    [state |-> s, action |-> a, reward |-> r, next_state |-> ns, done |-> d]

\* --------------------------------------------------------------- the deque

\* deque.append on a deque built with maxlen: the oldest element is dropped
\* when the deque is full.
DequeAppendUnbounded(q, x, maxlen) == Append(q, x)

DequeAppendDropsNewest(q, x, maxlen) ==
    IF Len(q) >= maxlen THEN q ELSE Append(q, x)

DequeAppend(q, x, maxlen) ==
    IF maxlen = 0 THEN q
    ELSE IF Len(q) = maxlen THEN Append(Tail(q), x)
    ELSE Append(q, x)

\* ------------------------------------------------------------ ReplayMemory

NoBatch == Transition(<<>>, <<>>, <<>>, <<>>, <<>>)

NoResult ==
    [op |-> "none", status |-> "ok", k |-> 0, idx |-> <<>>, batch |-> NoBatch,
     before |-> <<>>]

\* ReplayMemory.append(state, action, reward, next_state, done): its effect on
\* the memory.
MemAppend(state, action, reward, next_state, done) ==
    LET t == Transition(ToNumpy(state, heap), action, reward,
                        ToNumpy(next_state, heap), done)
    IN /\ memory' = DequeAppend(memory, t, Capacity)
       /\ history' = Append(history, t)
       /\ result' = [NoResult EXCEPT !.op = "append", !.before = memory]
       /\ calls' = calls + 1

\* A caller appends one transition.
append(state, action, reward, next_state, done) ==
    /\ calls < MaxAppends
    /\ MemAppend(state, action, reward, next_state, done)
    /\ UNCHANGED heap
    /\ UNCHANGED agentvars
    /\ UNCHANGED othervars

\* random.sample(population, k): the selections it can return, as sequences of
\* k pairwise distinct positions of a population of n elements.
RandomSampleWithReplacement(n, k) == [1..k -> 1..n]

RandomSample(n, k) ==
    {s \in [1..k -> 1..n] : \A i, j \in 1..k : i # j => s[i] # s[j]}

\* Transition(*zip(*transitions)) followed by the torch.tensor casts: one
\* sequence per field, position i of each taken from the i-th selected
\* transition; the casts copy the arrays' current contents.
TransposeMisaligned(transitions, h) ==
    LET n == Len(transitions)
    IN Transition([i \in 1..n |-> Deref(transitions[i].state, h)],
                  [i \in 1..n |-> transitions[i].action],
                  [i \in 1..n |-> transitions[n + 1 - i].reward],
                  [i \in 1..n |-> Deref(transitions[i].next_state, h)],
                  [i \in 1..n |-> transitions[i].done])

Transpose(transitions, h) ==
    Transition([i \in 1..Len(transitions) |-> Deref(transitions[i].state, h)],
               [i \in 1..Len(transitions) |-> transitions[i].action],
               [i \in 1..Len(transitions) |-> transitions[i].reward],
               [i \in 1..Len(transitions) |-> Deref(transitions[i].next_state, h)],
               [i \in 1..Len(transitions) |-> transitions[i].done])

\* The outcomes of ReplayMemory.sample(batch_size) on deque q.
SampleOutcomesClamped(q, h, batch_size) ==
    LET n == IF batch_size > Len(q) THEN Len(q) ELSE batch_size
    IN {[op |-> "sample", status |-> "ok", k |-> batch_size, idx |-> s,
         batch |-> Transpose([i \in 1..n |-> q[s[i]]], h),
         before |-> q] : s \in RandomSample(Len(q), n)}

SampleOutcomes(q, h, batch_size) ==
    IF batch_size > Len(q)
    THEN \* random.sample: "Sample larger than population or is negative"
         {[NoResult EXCEPT !.op = "sample", !.status = "ValueError",
                           !.k = batch_size, !.before = q]}
    ELSE IF batch_size = 0
    THEN \* zip(*[]) is empty: Transition() misses its five arguments
         {[NoResult EXCEPT !.op = "sample", !.status = "TypeError",
                           !.k = batch_size, !.before = q]}
    ELSE {[op |-> "sample", status |-> "ok", k |-> batch_size, idx |-> s,
           batch |-> Transpose([i \in 1..batch_size |-> q[s[i]]], h),
           before |-> q] : s \in RandomSample(Len(q), batch_size)}

RECURSIVE Without(_, _, _)
Without(q, drop, i) ==
    IF i > Len(q) THEN <<>>
    ELSE IF i \in drop THEN Without(q, drop, i + 1)
    ELSE <<q[i]>> \o Without(q, drop, i + 1)

samplePops(batch_size) ==
    /\ result' \in SampleOutcomes(memory, heap, batch_size)
    /\ memory' = Without(memory, {result'.idx[i] : i \in 1..Len(result'.idx)}, 1)
    /\ UNCHANGED <<heap, calls, history>>
    /\ UNCHANGED agentvars
    /\ UNCHANGED othervars

\* ReplayMemory.sample(batch_size)
sample(batch_size) ==
    /\ result' \in SampleOutcomes(memory, heap, batch_size)
    /\ UNCHANGED <<memory, heap, calls, history>>
    /\ UNCHANGED agentvars
    /\ UNCHANGED othervars

\* ReplayMemory.__len__
size == Len(memory)

\* The caller writes into one of its arrays in place (state[:] = ...).
MutateInPlace(o, v) ==
    /\ heap[o] # v
    /\ heap' = [heap EXCEPT ![o] = v]
    /\ UNCHANGED <<memory, calls, history, result>>
    /\ UNCHANGED agentvars
    /\ UNCHANGED othervars

\* The argument tuples of the append calls: the i-th has its own mix of
\* state object, action, reward, next_state object and done flag.
Input(i) ==
    [state      |-> ((i - 1) % 3) + 1,
     action     |-> i % 2,
     reward     |-> (i \div 2) % 2,
     next_state |-> (i % 3) + 1,
     done       |-> (i % 4 = 0)]

\* ReplayMemory.__init__: an empty deque; the caller's arrays hold 0, an
\* observation array holds its observation.
InitMemory ==
    /\ memory = <<>>
    /\ heap = [o \in Objs \cup ObsObjs |-> IF o \in Objs THEN 0 ELSE o - 4]
    /\ calls = 0
    /\ history = <<>>
    /\ result = NoResult

NoTransition == Transition(0, 0, 0, 0, FALSE)

NoUpdate ==
    [ran |-> FALSE, batch |-> NoBatch, target_net |-> <<>>, value_net |-> <<>>,
     predicted |-> <<>>, next_best |-> <<>>, target |-> <<>>]

ZeroParams == [s \in EnvStates |-> [a \in Actions |-> 0]]

\* env.reset(): a new episode starts in the initial observation.
EnvReset == [state |-> 0, current_step |-> 0]

\* env.step(action) leading to observation ns: the reward, and whether the
\* episode ends (the pole fell) or is cut (time limit).
EnvStep(e, action, ns) ==
    [next_state |-> ns,
     reward     |-> IF ns = 0 THEN 1 ELSE 0,
     terminal   |-> (e.state = 1 /\ ns = 1),
     truncated  |-> (e.current_step + 1 >= MaxEpisodeSteps)]

\* No selection made yet by a Monte-Carlo agent.
NoChoice == [state |-> 0, rnd |-> 0, status |-> "none", action |-> 0]

IdleSelection ==
    /\ Qtable = ZeroParams
    /\ epsilon = 0
    /\ choice = NoChoice

\* No episode handed to a Monte-Carlo update.
IdleReturns ==
    /\ episode = <<>>
    /\ discount = 0
    /\ return_state = 0
    /\ returns = <<>>
    /\ cursor = 0
    /\ naive = [t |-> 1, returns |-> <<>>]

\* The interaction loop before its first episode.  env_over tells whether the
\* environment has ended its episode (a step returned terminal or truncated)
\* and has not been reset since.
NoLoop ==
    [pc |-> "for", episode |-> 0, env |-> EnvReset, done |-> FALSE,
     action |-> 0, terminal |-> FALSE, truncated |-> FALSE,
     return_episode |-> 0, env_over |-> FALSE]

IdleLoop == loop = NoLoop

\* An entry of the preallocated arrays that no transition was written to:
\* "most of the data is zero".
ZeroEntry == [policy |-> 0, iteration |-> 0, nr |-> 0, reward |-> 0]

\* The on-policy loop before its first iteration: a collector with an empty
\* buffer.  policy counts the updates the policy has had; collected is the
\* number of steps of the last collect call, learned the transitions the last
\* policy.update was given.  buffer is what the buffer counts as stored,
\* arrays what printing collector.buffer.buffers[0] shows, index the entry the
\* next transition is written to, sample the outcome of the last
\* collector.buffer.sample call since the buffer last changed.
NoPPO ==
    [pc |-> "collect", iteration |-> 0, policy |-> 0, buffer |-> <<>>,
     collected |-> 0, learned |-> <<>>,
     arrays |-> [i \in 1..BufferSize |-> ZeroEntry], index |-> 1,
     sample |-> "none"]

IdlePPO == ppo = NoPPO

\* No call made on a RandomEnv.
NoOutcome ==
    [op |-> "none", status |-> "ok", action |-> 0, next_state |-> 0,
     reward |-> 0, terminal |-> FALSE, truncated |-> FALSE]

\* A RandomEnv nobody uses.  mode tells who calls it: "loop" is the
\* interaction loop, "free" a caller that makes any call at any time.
\* since_reset counts the step calls made since the last reset, done is the
\* flag of the interaction loop, first_truncated the number of the first
\* step since the last reset that returned truncated (0: none yet).
NoRandomEnv ==
    [mode |-> "free", nb_states |-> 1, max_episode_steps |-> 1,
     state |-> 0, current_step |-> 0, out |-> NoOutcome,
     since_reset |-> 0, done |-> FALSE, first_truncated |-> 0]

IdleRandomEnv == renv = NoRandomEnv

\* A tabular agent before training.  env_steps and update_calls count the
\* steps and the update calls of the current episode, Q_start is the Q-table
\* at the start of the episode, trans the last transition made and
\* updated_with the transition the last Q-learning update was given.
NoTabular ==
    [agent |-> "qlearning", pc |-> "reset", episode_nr |-> 0, Q |-> ZeroParams,
     env |-> EnvReset, state |-> 0, action |-> 0, done |-> FALSE,
     trans |-> NoTransition, episode |-> <<>>, env_steps |-> 0,
     update_calls |-> 0, Q_start |-> ZeroParams, updated_with |-> NoTransition]

IdleTabular == tab = NoTabular

\* A network nobody has trained.  grad lists the minibatches whose gradients
\* are summed in the .grad of the parameters, applied the gradients each
\* optimizer step has applied; batch_idx counts the minibatches from 1.
NoTrainer ==
    [pc |-> "idle", epoch |-> 0, batch_idx |-> 0, grad |-> <<>>, applied |-> <<>>,
     loss |-> 0, training_loss |-> 0, correct |-> 0, total |-> 0, hits |-> 0,
     returned |-> [loss_sum |-> 0, dataset |-> 0, correct |-> 0, total |-> 0]]

IdleTrainer == trainer = NoTrainer

\* GymRecorder(env): no frame yet.  rendered counts the frames the
\* environment has rendered (a frame is known by its number), videos are the
\* gifs written, made the calls of make_video, status the outcome of the
\* last one.
NoRecorder ==
    [frames |-> <<>>, rendered |-> 0, videos |-> <<>>, made |-> 0,
     status |-> "none"]

IdleRecorder == recorder = NoRecorder

\* The collector of the library DQN loop with its buffer just made: stored
\* is the number of transitions in the buffer of each worker; collects and
\* updates count the calls of collector.collect (the pre-fill apart) and of
\* policy.update, seen is the number of transitions the last policy.update
\* found in the buffer.
NoLibrary ==
    [pc |-> "prefill", iteration |-> 0, stored |-> [w \in 1..LibWorkers |-> 0],
     collects |-> 0, updates |-> 0, seen |-> 0]

IdleLibrary == lib = NoLibrary

IdleMore ==
    IdleRandomEnv /\ IdleTabular /\ IdleTrainer /\ IdleRecorder /\ IdleLibrary

IdleOthers == IdleSelection /\ IdleReturns /\ IdleLoop /\ IdlePPO /\ IdleMore

IdleAgent ==
    /\ theta = ZeroParams
    /\ theta_target = ZeroParams
    /\ snapshots = {ZeroParams}
    /\ gamma = GammaDen
    /\ steps = 0
    /\ pc = "idle"
    /\ env = [state |-> 0, current_step |-> 0]
    /\ pending = NoTransition
    /\ update = NoUpdate
    /\ synced = FALSE
    /\ since_sync = 0
    /\ updates = 0

Init == InitMemory /\ IdleAgent /\ IdleOthers

Next ==
    \/ \E i \in 1..NumInputs :
           append(Input(i).state, Input(i).action, Input(i).reward,
                  Input(i).next_state, Input(i).done)
    \/ \E k \in 0..MaxBatch : sample(k)

Spec == Init /\ [][Next]_vars

\* The same calls, by a caller that also writes into its arrays between them.
NextAliasing ==
    \/ Next
    \/ \E o \in Objs, v \in Values : MutateInPlace(o, v)

SpecAliasing == Init /\ [][NextAliasing]_vars

\* ------------------------------------------------------------- DQN agent

\* The initial ("random") parameters of a network: one score per observation
\* and action.
InitParams == [EnvStates -> [Actions -> {0, 1}]]

\* net(state): the vector of Q-values, one per action.
Forward(params, s) == params[s]

\* Tensor.max(): the highest score of a vector of Q-values.
MaxOf(q) == CHOOSE m \in {q[a] : a \in Actions} : \A a \in Actions : q[a] <= m

\* Tensor.argmax().item(): the index of the (first) highest score.
Argmax(q) ==
    CHOOSE a \in Actions : q[a] = MaxOf(q) /\ \A b \in Actions : b < a => q[b] < MaxOf(q)

\* params = net.state_dict()
StateDict(params) == params

\* net.load_state_dict(params): every parameter of net is overwritten.
LoadStateDictNoop(net, params) == net

LoadStateDictPartial(net, params) ==
    [s \in EnvStates |-> IF s = 0 THEN params[s] ELSE net[s]]

LoadStateDict(net, params) == params

\* with torch.no_grad(): next_Q_values = target_net(batch.next_state), reduced
\* to the Q-value of the greedy action in each next state.
NextQValuesOnline(target_net, value_net, next_states) ==
    [k \in 1..Len(next_states) |-> MaxOf(Forward(value_net, next_states[k]))]

NextQValues(target_net, value_net, next_states) ==
    [k \in 1..Len(next_states) |-> MaxOf(Forward(target_net, next_states[k]))]

\* Q[batch.dones] = 0.0
MaskTerminalNone(Q, dones) == Q

MaskTerminal(Q, dones) == [k \in 1..Len(Q) |-> IF dones[k] THEN 0 ELSE Q[k]]

\* The Bellman targets r + gamma * Q, in units of 1/GammaDen (g is gamma in the
\* same units, so that a target of GammaDen * r is the reward r itself).
BellmanTargets(rewards, Q, g) ==
    [k \in 1..Len(rewards) |-> GammaDen * rewards[k] + g * Q[k]]

\* Q_theta(s_k, a_k): the predicted Q-value of the action taken.
Predicted(value_net, states, actions) ==
    [k \in 1..Len(states) |-> Forward(value_net, states[k])[actions[k]]]

Sgn(x) == IF x > 0 THEN 1 ELSE IF x < 0 THEN -1 ELSE 0

RECURSIVE SumSeq(_)
SumSeq(q) == IF q = <<>> THEN 0 ELSE Head(q) + SumSeq(Tail(q))

OptimizerStepNoop(value_net, batch, target) == value_net

\* One optimizer step on the mse between targets and predictions: each
\* parameter moves one unit against its gradient; only the parameters of the
\* value network that the minibatch touches have one.
OptimizerStep(value_net, batch, target) ==
    LET err(s, a) ==
            SumSeq([k \in 1..Len(target) |->
                      IF batch.state[k] = s /\ batch.action[k] = a
                      THEN target[k] - GammaDen * value_net[s][a] ELSE 0])
    IN [s \in EnvStates |-> [a \in Actions |-> value_net[s][a] + Sgn(err(s, a))]]

\* Start of an episode of train().
Reset ==
    /\ pc = "reset"
    /\ UNCHANGED othervars
    /\ steps < MaxSteps
    /\ env' = EnvReset
    /\ pc' = "act"
    /\ synced' = FALSE
    /\ UNCHANGED <<memory, heap, calls, history, result, theta, theta_target,
                   snapshots, gamma, steps, pending, update, since_sync, updates>>

\* "epsilon should [..] decrease exponentially [..] for each action made",
\* "t is the number of steps since the start": the step counter after one
\* more act call.
StepCounterFrozen(t) == t

StepCounter(t) == t + 1

\* act(state) followed by env.step(action): epsilon-greedy selection (epsilon
\* follows 0.05 + 0.85 exp(-t/1000), so both branches can be taken at every
\* step), one more step on the counter, and the transition observed.
Act ==
    /\ pc = "act"
    /\ UNCHANGED othervars
    /\ steps < MaxSteps
    /\ \E explore \in BOOLEAN, a \in Actions, ns \in EnvStates :
          /\ explore \/ a = Argmax(Forward(theta, env.state))
          /\ LET o == EnvStep(env, a, ns)
             IN /\ pending' = Transition(ObsObj(env.state), a, o.reward,
                                         ObsObj(ns), o.terminal \/ o.truncated)
                /\ env' = [state |-> ns, current_step |-> env.current_step + 1]
    /\ steps' = StepCounter(steps)
    /\ pc' = "store"
    /\ synced' = FALSE
    /\ UNCHANGED <<memory, heap, calls, history, result, theta, theta_target,
                   snapshots, gamma, update, since_sync, updates>>

\* The transition is stored in the replay memory.
Store ==
    /\ pc = "store"
    /\ UNCHANGED othervars
    /\ MemAppend(pending.state, pending.action, pending.reward,
                 pending.next_state, pending.done)
    /\ pc' = "update"
    /\ synced' = FALSE
    /\ UNCHANGED <<heap, theta, theta_target, snapshots, gamma, steps, env,
                   pending, update, since_sync, updates>>

\* "Every T_train steps", and "do not start learning until the replay buffer
\* is full enough, otherwise you will not fill your minibatch. [..] Use
\* len(memory)": whether step t trains on a memory of n transitions.
CanLearnUngated(t, n, batch_size) == t % T_train = 0

CanLearnNever(t, n, batch_size) == FALSE

CanLearn(t, n, batch_size) == t % T_train = 0 /\ n >= batch_size

\* "Every T_target steps": whether step t copies theta into theta_target.
TargetUpdateDueAlways(t) == TRUE

TargetUpdateDue(t) == t % T_target = 0

\* update(): sample a minibatch, compute the Bellman targets with the target
\* network, one optimizer step on the value network.  Nothing is learned
\* while the memory cannot fill a minibatch.  Nothing catches an exception of
\* sample: it ends the run.
Update ==
    /\ pc = "update"
    /\ UNCHANGED othervars
    /\ IF CanLearn(steps, size, BatchSize)
       THEN /\ result' \in SampleOutcomes(memory, heap, BatchSize)
            /\ updates' = updates + 1
            /\ since_sync' = since_sync + 1
            /\ IF result'.status = "ok"
               THEN LET b == result'.batch
                        nb == MaskTerminal(
                                  NextQValues(theta_target, theta, b.next_state),
                                  b.done)
                        tg == BellmanTargets(b.reward, nb, gamma)
                    IN /\ update' = [ran |-> TRUE, batch |-> b,
                                     target_net |-> theta_target,
                                     value_net |-> theta,
                                     predicted |-> Predicted(theta, b.state, b.action),
                                     next_best |-> nb, target |-> tg]
                       /\ theta' = OptimizerStep(theta, b, tg)
                       /\ pc' = "sync"
               ELSE /\ update' = NoUpdate
                    /\ theta' = theta
                    /\ pc' = "raised"
       ELSE /\ update' = NoUpdate
            /\ pc' = "sync"
            /\ UNCHANGED <<result, theta, updates, since_sync>>
    /\ snapshots' = snapshots \cup {theta'}
    /\ synced' = FALSE
    /\ UNCHANGED <<memory, heap, calls, history, theta_target, gamma, steps, env,
                   pending>>

\* Every T_target steps: theta' <- theta.
Sync ==
    /\ pc = "sync"
    /\ UNCHANGED othervars
    /\ IF TargetUpdateDue(steps)
       THEN /\ theta_target' = LoadStateDict(theta_target, StateDict(theta))
            /\ synced' = TRUE
            /\ since_sync' = 0
       ELSE /\ UNCHANGED <<theta_target, since_sync>>
            /\ synced' = FALSE
    /\ pc' = IF pending.done THEN "reset" ELSE "act"
    /\ UNCHANGED <<memory, heap, calls, history, result, theta, snapshots, gamma,
                   steps, env, pending, update, updates>>

\* The constructor: the value and target networks start from random parameters
\* and the target network is given those of the value network; the replay
\* memory is empty.
InitDQN ==
    /\ InitMemory
    /\ theta \in InitParams
    /\ \E random \in InitParams :
           theta_target = LoadStateDict(random, StateDict(theta))
    /\ snapshots = {theta}
    /\ gamma \in 0..GammaDen
    /\ steps = 0
    /\ pc = "reset"
    /\ env = EnvReset
    /\ pending = NoTransition
    /\ update = NoUpdate
    /\ synced = FALSE
    /\ since_sync = 0
    /\ updates = 0
    /\ IdleOthers

NextDQN == Reset \/ Act \/ Store \/ Update \/ Sync

SpecDQN == InitDQN /\ [][NextDQN]_vars

\* -------------------------------------------- Monte-Carlo agent: selection

\* The Q-tables an agent can hold when it selects an action.
QTables == [EnvStates -> [Actions -> {0, 1}]]

\* env.action_space.sample(): any action of the action space.
ActionSpaceSample == Actions

\* rng.random(): a number of [0, 1), in units of 1/EpsDen.
RngRandom == 0..(EpsDen - 1)

\* action = self.Q[state, :].argmax()
\* if rng.random() < epsilon:
\*     action = self.env.action_space.sample()
\* with rnd the number rng.random() returns and sampled the action
\* action_space.sample() would return.
EpsilonGreedyInclusive(q, eps, rnd, sampled) ==
    IF rnd <= eps THEN sampled ELSE Argmax(q)

EpsilonGreedy(q, eps, rnd, sampled) ==
    IF rnd < eps THEN sampled ELSE Argmax(q)

\* The greedy branch of the snippet: argmax alone.
GreedyArgmax(q) == {[status |-> "ok", action |-> Argmax(q)]}

\* The greedy action as the text gives it,
\*   rng.random.choice(np.where(self.Q[state, :] == self.Q[state, :].max())[0])
\* rng is a numpy Generator and rng.random its method: the method has no
\* attribute choice, and the expression raises before it selects anything.
GreedyRandomChoice(q) == {[status |-> "AttributeError", action |-> 0]}

\* One selection with the snippet, in state s.
SelectAction(s) ==
    /\ \E rnd \in RngRandom, sampled \in ActionSpaceSample :
          choice' = [state |-> s, rnd |-> rnd, status |-> "ok",
                     action |-> EpsilonGreedy(Qtable[s], epsilon, rnd, sampled)]
    /\ UNCHANGED <<Qtable, epsilon>>
    /\ UNCHANGED <<memory, heap, calls, history, result>>
    /\ UNCHANGED agentvars
    /\ UNCHANGED <<mcvars, loop, ppo, morevars>>

\* One greedy selection with the expression of the text, in state s.
SelectGreedy(s) ==
    /\ \E o \in GreedyRandomChoice(Qtable[s]) :
          choice' = [state |-> s, rnd |-> 0, status |-> o.status,
                     action |-> o.action]
    /\ UNCHANGED <<Qtable, epsilon>>
    /\ UNCHANGED <<memory, heap, calls, history, result>>
    /\ UNCHANGED agentvars
    /\ UNCHANGED <<mcvars, loop, ppo, morevars>>

\* An agent with any Q-table and any epsilon of [0, 1].
InitSelection ==
    /\ InitMemory
    /\ IdleAgent
    /\ Qtable \in QTables
    /\ epsilon \in 0..EpsDen
    /\ choice = NoChoice
    /\ IdleReturns
    /\ IdleLoop
    /\ IdlePPO
    /\ IdleMore

NextSelection ==
    \/ \E s \in EnvStates : SelectAction(s)
    \/ \E s \in EnvStates : SelectGreedy(s)

SpecSelection == InitSelection /\ [][NextSelection]_vars

\* ---------------------------------------------- Monte-Carlo agent: returns

\* The rewards a transition can carry.
EpisodeRewards == {-1, 0, 1}

RECURSIVE Pow(_, _)
Pow(b, n) == IF n = 0 THEN 1 ELSE b * Pow(b, n - 1)

\* Returns are kept in units of 1/ReturnScale, fine enough for every product
\* of up to MaxEpisodeLen discount factors to be exact.
ReturnScale == Pow(ReturnDen, MaxEpisodeLen)

\* R_t = r_{t+1} + gamma R_{t+1}
BackwardReturnUndiscounted(reward, next_return, g) ==
    reward * ReturnScale + next_return

BackwardReturn(reward, next_return, g) ==
    reward * ReturnScale + (g * next_return) \div ReturnDen

\* One iteration of "for transition in reversed(episode)": the return of the
\* transition follows from that of the transition after it.
BackwardStep ==
    /\ cursor >= 1
    /\ return_state' = BackwardReturn(episode[cursor], return_state, discount)
    /\ returns' = [returns EXCEPT ![cursor] = return_state']
    /\ cursor' = cursor - 1
    /\ UNCHANGED <<episode, discount, naive>>
    /\ UNCHANGED <<memory, heap, calls, history, result>>
    /\ UNCHANGED agentvars
    /\ UNCHANGED <<selvars, loop, ppo, morevars>>

\* The inner loop of the naive approach for the transition at position first
\* (counted from 1; t = first - 1 in the code): "for k in range(t, T):
\* return_state += gamma**k * reward", where reward is the reward of the
\* transition at t itself.
RECURSIVE NaiveReturn(_, _, _, _)
NaiveReturn(transitions, first, k_from, g) ==
    IF k_from > Len(transitions) - 1 THEN 0
    ELSE Pow(g, k_from) * Pow(ReturnDen, MaxEpisodeLen - k_from) * transitions[first]
         + NaiveReturn(transitions, first, k_from + 1, g)

\* One iteration of the outer loop "for t in range(T)" of the naive approach.
NaiveStep ==
    /\ naive.t <= Len(episode)
    /\ naive' = [t |-> naive.t + 1,
                 returns |-> [naive.returns EXCEPT ![naive.t] =
                                 NaiveReturn(episode, naive.t, naive.t - 1, discount)]]
    /\ UNCHANGED <<episode, discount, return_state, returns, cursor>>
    /\ UNCHANGED <<memory, heap, calls, history, result>>
    /\ UNCHANGED agentvars
    /\ UNCHANGED <<selvars, loop, ppo, morevars>>

\* update(episode) starts at the terminal state, whose return is 0.
InitReturns ==
    /\ InitMemory
    /\ IdleAgent
    /\ IdleSelection
    /\ IdleLoop
    /\ IdlePPO
    /\ IdleMore
    /\ \E T \in 0..MaxEpisodeLen : episode \in [1..T -> EpisodeRewards]
    /\ discount \in 0..ReturnDen
    /\ return_state = 0
    /\ returns = [i \in 1..Len(episode) |-> 0]
    /\ cursor = Len(episode)
    /\ naive = [t |-> 1, returns |-> [i \in 1..Len(episode) |-> 0]]

NextReturns == BackwardStep \/ NaiveStep

SpecReturns == InitReturns /\ [][NextReturns]_vars

\* -------------------------------------------------------- interaction loop

\* done = terminal or truncated
EpisodeDoneTerminalOnly(terminal, truncated) == terminal

EpisodeDone(terminal, truncated) == terminal \/ truncated

\* for episode in range(..): state, info = env.reset(); done = False
LoopReset ==
    /\ loop.pc = "for"
    /\ loop.episode < NumEpisodes
    /\ loop' = [loop EXCEPT !.pc = "while", !.env = EnvReset, !.done = FALSE,
                            !.return_episode = 0, !.env_over = FALSE]
    /\ UNCHANGED <<memory, heap, calls, history, result>>
    /\ UNCHANGED agentvars
    /\ UNCHANGED <<selvars, mcvars, ppo, morevars>>

\* while not done: one pass of the body: a random action, env.step, the
\* return, the next state, done.
LoopStep ==
    /\ loop.pc = "while"
    /\ ~loop.done
    /\ \E action \in ActionSpaceSample, ns \in EnvStates :
          LET o == EnvStep(loop.env, action, ns)
          IN loop' = [loop EXCEPT
                         !.env = [state |-> ns,
                                  current_step |-> loop.env.current_step + 1],
                         !.action = action,
                         !.terminal = o.terminal,
                         !.truncated = o.truncated,
                         !.done = EpisodeDone(o.terminal, o.truncated),
                         !.return_episode = loop.return_episode + o.reward,
                         !.env_over = o.terminal \/ o.truncated]
    /\ UNCHANGED <<memory, heap, calls, history, result>>
    /\ UNCHANGED agentvars
    /\ UNCHANGED <<selvars, mcvars, ppo, morevars>>

\* while not done: done is set, the episode is over.
LoopEndEpisode ==
    /\ loop.pc = "while"
    /\ loop.done
    /\ loop' = [loop EXCEPT !.pc = "for", !.episode = loop.episode + 1]
    /\ UNCHANGED <<memory, heap, calls, history, result>>
    /\ UNCHANGED agentvars
    /\ UNCHANGED <<selvars, mcvars, ppo, morevars>>

\* env.close() after the last episode.
LoopClose ==
    /\ loop.pc = "for"
    /\ loop.episode = NumEpisodes
    /\ loop' = [loop EXCEPT !.pc = "closed"]
    /\ UNCHANGED <<memory, heap, calls, history, result>>
    /\ UNCHANGED agentvars
    /\ UNCHANGED <<selvars, mcvars, ppo, morevars>>

InitLoop ==
    /\ InitMemory
    /\ IdleAgent
    /\ IdleOthers

NextLoop == LoopReset \/ LoopStep \/ LoopEndEpisode \/ LoopClose

SpecLoop == InitLoop /\ [][NextLoop]_vars

\* --------------------------------------------------------- on-policy loop

\* The buffer of the collector stores one more transition: it is preallocated
\* for total_size transitions ("an ERM of max 1000 transitions"), and once full the
\* oldest one gives its place.
BufferAdd(buffer, x, total_size) ==
    IF Len(buffer) >= total_size THEN Append(Tail(buffer), x) ELSE Append(buffer, x)

RECURSIVE BufferAddAll(_, _, _)
BufferAddAll(buffer, xs, total_size) ==
    IF xs = <<>> THEN buffer
    ELSE BufferAddAll(BufferAdd(buffer, Head(xs), total_size), Tail(xs), total_size)

\* The same additions seen in the preallocated arrays: each transition is
\* written over the entry at the index, which then moves on and wraps.
RECURSIVE ArraysWriteAll(_, _, _)
ArraysWriteAll(arrays, index, xs) ==
    IF xs = <<>> THEN arrays
    ELSE ArraysWriteAll([arrays EXCEPT ![index] = Head(xs)],
                        (index % Len(arrays)) + 1, Tail(xs))

IndexAfter(index, count, total_size) == ((index - 1 + count) % total_size) + 1

\* collector.buffer.sample(batch_size): a minibatch from a buffer that has
\* transitions, an error from one that has none.
BufferSample(buffer, batch_size) ==
    IF Len(buffer) = 0 THEN "error" ELSE "ok"

\* collector.reset_buffer(keep_statistics=False): the buffer is empty again
\* (its arrays still show the old data, but sampling finds none).
ResetBufferKeeps(buffer) == buffer

ResetBuffer(buffer) == <<>>

\* result = collector.collect(n_step=n): n transitions made with the current
\* policy go to the buffer.
Collect ==
    /\ ppo.pc = "collect"
    /\ ppo.iteration < NumIterations
    /\ \E n \in 1..MaxCollect : \E rewards \in [1..n -> Rewards] :
          LET xs == [k \in 1..n |->
                        [policy |-> ppo.policy, iteration |-> ppo.iteration,
                         nr |-> k, reward |-> rewards[k]]]
          IN ppo' = [ppo EXCEPT !.pc = "update", !.collected = n,
                                !.buffer = BufferAddAll(ppo.buffer, xs, BufferSize),
                                !.arrays = ArraysWriteAll(ppo.arrays, ppo.index, xs),
                                !.index = IndexAfter(ppo.index, n, BufferSize),
                                !.sample = "none"]
    /\ UNCHANGED <<memory, heap, calls, history, result>>
    /\ UNCHANGED agentvars
    /\ UNCHANGED <<selvars, mcvars, loop, morevars>>

\* policy.update(sample_size=0, buffer=collector.buffer, ..): the policy
\* learns from the whole buffer.
PolicyUpdate ==
    /\ ppo.pc = "update"
    /\ ppo' = [ppo EXCEPT !.pc = "reset", !.learned = ppo.buffer,
                          !.policy = ppo.policy + 1, !.sample = "none"]
    /\ UNCHANGED <<memory, heap, calls, history, result>>
    /\ UNCHANGED agentvars
    /\ UNCHANGED <<selvars, mcvars, loop, morevars>>

\* collector.reset_buffer(keep_statistics=False), end of the iteration: the
\* buffer counts no transition any more and writes from the first entry
\* again; the arrays are left as they are ("If we print the buffer, data still
\* seems to be there").
EmptyBuffer ==
    /\ ppo.pc = "reset"
    /\ ppo' = [ppo EXCEPT !.pc = "collect", !.iteration = ppo.iteration + 1,
                          !.buffer = ResetBuffer(ppo.buffer),
                          !.index = 1, !.sample = "none"]
    /\ UNCHANGED <<memory, heap, calls, history, result>>
    /\ UNCHANGED agentvars
    /\ UNCHANGED <<selvars, mcvars, loop, morevars>>

\* collector.buffer.sample(10), called between two steps of the loop.
SampleCall ==
    /\ ppo.sample = "none"
    /\ \E batch_size \in 1..MaxCollect :
          ppo' = [ppo EXCEPT !.sample = BufferSample(ppo.buffer, batch_size)]
    /\ UNCHANGED <<memory, heap, calls, history, result>>
    /\ UNCHANGED agentvars
    /\ UNCHANGED <<selvars, mcvars, loop, morevars>>

InitPPO ==
    /\ InitMemory
    /\ IdleAgent
    /\ IdleOthers

NextPPO == Collect \/ PolicyUpdate \/ EmptyBuffer \/ SampleCall

SpecPPO == InitPPO /\ [][NextPPO]_vars

\* ------------------------------------------------------------ properties

Min(a, b) == IF a <= b THEN a ELSE b
Range(q) == {q[i] : i \in 1..Len(q)}
LastN(q, n) == SubSeq(q, Len(q) - n + 1, Len(q))

\* C1: for a ReplayMemory of capacity N, after any sequence of append and
\* sample calls the length of the buffer is min(number of append calls, N);
\* append never fails and the length never exceeds N.
C1_LengthIsMinCallsCapacity ==
    /\ size = Min(calls, Capacity)
    /\ size <= Capacity
    /\ result.op = "append" => result.status = "ok"

\* More appends than the capacity have been made, and a sample call followed.
C1_Witness == calls > Capacity /\ size = Capacity /\ result.op = "sample"

\* C2: the buffer holds exactly the most recently appended min(calls, N)
\* transitions, in insertion order; an append on a full buffer evicts the
\* oldest stored transition and no other.
C2_FifoEviction ==
    /\ memory = LastN(history, Min(Len(history), Capacity))
    /\ (result.op = "append" /\ Capacity > 0 /\ Len(result.before) = Capacity)
           => memory = Append(Tail(result.before), history[Len(history)])

\* Capacity + 1 different transitions A, B, .. were appended: the first one is
\* gone and the others are kept in order (capacity 3: B, C, D).
C2_Witness ==
    /\ Len(history) = Capacity + 1
    /\ \A i, j \in 1..Len(history) : i # j => history[i] # history[j]
    /\ memory = SubSeq(history, 2, Capacity + 1)
    /\ history[1] \notin Range(memory)

\* C3: sample(k) on a buffer holding m >= k transitions returns exactly k
\* transitions taken from k pairwise distinct positions of the buffer, and
\* every stored position can be selected.
C3_SampleReturnsKDistinct ==
    /\ (result.op = "sample" /\ result.k <= Len(result.before)) =>
          /\ result.status = "ok"
          /\ Len(result.idx) = result.k
          /\ \A i \in 1..Len(result.idx) : result.idx[i] \in 1..Len(result.before)
          /\ \A i, j \in 1..Len(result.idx) : i # j => result.idx[i] # result.idx[j]
          /\ Len(result.batch.action) = result.k
          /\ \A i \in 1..Len(result.idx) :
                result.batch.action[i] = result.before[result.idx[i]].action
    /\ \A k \in 1..MaxBatch : \A p \in 1..size :
          k <= size => \E r \in SampleOutcomes(memory, heap, k) : p \in Range(r.idx)

\* C4 as stated: sample(k) on a buffer holding m < k transitions raises
\* InsufficientDataError, returns no batch and leaves the buffer unchanged.
C4_RaisesInsufficientDataError ==
    (result.op = "sample" /\ result.k > Len(result.before)) =>
        /\ result.status = "InsufficientDataError"
        /\ result.batch = NoBatch
        /\ memory = result.before

\* C4, amended: sample(k) on a buffer holding m < k transitions raises the
\* ValueError of random.sample, returns no batch (not even a shorter one) and
\* leaves the buffer unchanged.
C4_RaisesValueError ==
    (result.op = "sample" /\ result.k > Len(result.before)) =>
        /\ result.status = "ValueError"
        /\ result.idx = <<>>
        /\ result.batch = NoBatch
        /\ memory = result.before

\* sample(k) was called on a non-empty buffer holding fewer than k transitions.
C4_Witness ==
    /\ result.op = "sample"
    /\ result.k > Len(result.before)
    /\ Len(result.before) >= 1

\* C5: after any sample(k) call, successful or not, the buffer holds the same
\* transitions in the same order and with the same length as before the call.
C5_SampleLeavesBuffer ==
    result.op = "sample" =>
        /\ memory = result.before
        /\ size = Len(result.before)
        /\ \A i \in 1..Len(result.idx) : result.idx[i] \in 1..size

\* A successful sample of several transitions of a full buffer.
C5_Witness ==
    /\ result.op = "sample"
    /\ result.status = "ok"
    /\ result.k = MaxBatch
    /\ size = Capacity

\* The contents of a stored transition in heap h.
Contents(t, h) ==
    [t EXCEPT !.state = Deref(t.state, h), !.next_state = Deref(t.next_state, h)]

\* C6: a transition is stored by value: as long as it stays in the buffer its
\* contents do not change, whatever the caller does to the arrays it passed to
\* append; and a transition leaves the buffer only as the oldest one, when an
\* append finds the buffer full.
C6_StoredByValue ==
    [][/\ memory' = memory =>
             \A i \in 1..Len(memory) :
                 Contents(memory'[i], heap') = Contents(memory[i], heap)
       /\ \A t \in Range(memory) :
             t \notin Range(memory') =>
                 /\ Len(memory) = Capacity
                 /\ t = Head(memory)
                 /\ calls' = calls + 1]_vars

\* C7: for every sampled transition with done = true the Bellman target is its
\* reward, for every gamma and every output of the target network (targets
\* are in units of 1/GammaDen).
C7_TerminalTargetIsReward ==
    update.ran =>
        \A k \in 1..Len(update.target) :
            update.batch.done[k] => update.target[k] = GammaDen * update.batch.reward[k]

\* An update on a terminal transition whose next state the target network
\* scores above 0, with gamma > 0.
C7_Witness ==
    /\ update.ran
    /\ gamma > 0
    /\ \E k \in 1..Len(update.target) :
          /\ update.batch.done[k]
          /\ MaxOf(Forward(update.target_net, update.batch.next_state[k])) > 0

\* C8: for every sampled transition with done = false the Bellman target is
\* reward + gamma * max_a Q_target(next_state)[a], computed with the target
\* network: the reward when gamma = 0, reward + next_best when gamma = 1.
C8_NonTerminalTarget ==
    update.ran =>
        \A k \in 1..Len(update.target) :
            ~update.batch.done[k] =>
                LET best == MaxOf(Forward(update.target_net, update.batch.next_state[k]))
                    r == update.batch.reward[k]
                IN /\ update.target[k] = GammaDen * r + gamma * best
                   /\ gamma = 0 => update.target[k] = GammaDen * r
                   /\ gamma = GammaDen => update.target[k] = GammaDen * (r + best)

\* An update on a non-terminal transition for whose next state the target and
\* the value network give different best scores, with gamma > 0.
C8_Witness ==
    /\ update.ran
    /\ gamma > 0
    /\ \E k \in 1..Len(update.target) :
          /\ ~update.batch.done[k]
          /\ MaxOf(Forward(update.target_net, update.batch.next_state[k]))
                # MaxOf(Forward(update.value_net, update.batch.next_state[k]))

\* C9: in every state of the training loop the target network's parameters
\* are those the value network had at some earlier or the current point of the
\* run, and so are those every update call used.
C9_TargetIsSnapshot ==
    /\ theta_target \in snapshots
    /\ update.ran => update.target_net \in snapshots

\* An update has just used a target network that is behind the value network.
C9_Witness ==
    /\ pc = "sync"
    /\ update.ran
    /\ update.target_net # update.value_net
    /\ theta_target # theta

\* C10: right after a synchronization the target network and the value
\* network give equal scores for every probe state.
C10_SyncEqualOutputs ==
    synced => \A s \in EnvStates : Forward(theta_target, s) = Forward(theta, s)

\* A synchronization that changed the target network: the last update still
\* used other target parameters.
C10_Witness ==
    /\ synced
    /\ update.ran
    /\ update.target_net # theta_target

\* The summed error t_k - Q(s_k, a_k) of an update's minibatch on the
\* parameter of observation s and action a, in units of 1/GammaDen.
BatchError(u, s, a) ==
    SumSeq([k \in 1..Len(u.target) |->
              IF u.batch.state[k] = s /\ u.batch.action[k] = a
              THEN u.target[k] - GammaDen * u.predicted[k] ELSE 0])

\* Some probe state for which the two networks give different scores.
Diverged == \E s \in EnvStates : Forward(theta_target, s) # Forward(theta, s)

C15_UpdateNeedsFullBatch ==
    /\ result.op = "sample" =>
          /\ Len(result.before) >= BatchSize
          /\ result.status = "ok"
    /\ update.ran => Len(update.target) = BatchSize
    /\ pc # "raised"

\* The first update of a run: the memory holds exactly batch_size transitions,
\* and the steps before it made no update.
C15_Witness ==
    /\ pc = "sync"
    /\ update.ran
    /\ updates = 1
    /\ steps > 1
    /\ Len(result.before) = BatchSize

C19_BatchAlignedByPosition ==
    (result.op = "sample" /\ result.status = "ok") =>
        /\ Len(result.idx) = result.k
        /\ \A f \in {"state", "action", "reward", "next_state", "done"} :
               Len(result.batch[f]) = result.k
        /\ \A i \in 1..Len(result.idx) :
               LET t == Contents(result.before[result.idx[i]], heap)
               IN /\ result.batch.state[i] = t.state
                  /\ result.batch.action[i] = t.action
                  /\ result.batch.reward[i] = t.reward
                  /\ result.batch.next_state[i] = t.next_state
                  /\ result.batch.done[i] = t.done

\* A batch of two transitions that differ in every field, the later stored
\* one selected first.
C19_Witness ==
    /\ result.op = "sample"
    /\ result.status = "ok"
    /\ result.idx[1] > result.idx[2]
    /\ \A f \in {"state", "action", "reward", "next_state", "done"} :
           result.batch[f][1] # result.batch[f][2]

\* C20 as stated: the target network's parameters change only at an update
\* call whose number is a multiple of T_target, and then become a copy of the
\* value network's.
C20_TargetChangesEveryTtargetUpdates ==
    [][theta_target' # theta_target =>
           /\ updates' > 0
           /\ updates' % T_target = 0
           /\ theta_target' = theta']_vars

\* C20, amended: the target network's parameters change only at a step t that
\* is a multiple of T_target, whatever the number of update calls made so far,
\* and then become an exact copy of the value network's; at such a step the
\* copy is always made; an update call changes the value network only.
C20_TargetChangesEveryTtargetSteps ==
    [][/\ theta_target' # theta_target =>
             /\ pc = "sync"
             /\ steps > 0
             /\ steps % T_target = 0
             /\ theta' = theta
       /\ (pc = "sync" /\ steps % T_target = 0) => theta_target' = theta
       /\ pc = "update" => theta_target' = theta_target]_vars

\* A copy made at step T_target, after fewer than T_target update calls, that
\* changed the target network.
C20_Witness ==
    /\ synced
    /\ steps = T_target
    /\ updates < T_target
    /\ update.ran
    /\ theta_target = theta
    /\ update.target_net # theta_target

\* The actions the snippet can return for Q-values q and exploration eps.
Selectable(q, eps) ==
    {EpsilonGreedy(q, eps, rnd, sampled) :
         rnd \in RngRandom, sampled \in ActionSpaceSample}

\* C12: with epsilon = 0 every action the epsilon-greedy selection returns has
\* the maximal score of its state; with epsilon = 1 every action of the action
\* set can be returned, whatever the scores.
C12_EpsilonGreedyExtremes ==
    /\ (choice.status = "ok" /\ epsilon = 0) =>
          Qtable[choice.state][choice.action] = MaxOf(Qtable[choice.state])
    /\ epsilon = 0 =>
          \A s \in EnvStates : \A a \in Selectable(Qtable[s], epsilon) :
              \A b \in Actions : Qtable[s][b] <= Qtable[s][a]
    /\ epsilon = EpsDen =>
          \A s \in EnvStates : Selectable(Qtable[s], epsilon) = Actions

\* With epsilon = 0 and the smallest random draw, the action of highest score
\* was returned although it is not the first one.
C12_Witness ==
    /\ choice.status = "ok"
    /\ epsilon = 0
    /\ choice.rnd = 0
    /\ choice.action # 0
    /\ Qtable[choice.state][0] < Qtable[choice.state][choice.action]

\* The actions the greedy choice can return for Q-values q: by the snippet's
\* argmax or by the expression the text asks for.
GreedyActions(q) ==
    {o.action : o \in {x \in GreedyArgmax(q) \cup GreedyRandomChoice(q) :
                          x.status = "ok"}}

\* C13: when several actions share the maximal score of a state, each of them
\* can be returned by the greedy choice, not only the one of lowest index
\* (and the greedy choice does return an action).
C13_TiedActionsAllSelectable ==
    choice.status # "none" =>
        /\ choice.status = "ok"
        /\ \A a \in Actions :
               Qtable[choice.state][a] = MaxOf(Qtable[choice.state]) =>
                   a \in GreedyActions(Qtable[choice.state])

\* The discounted sum of the rewards from transition i on,
\* r_i + gamma r_{i+1} + gamma^2 r_{i+2} + .., in units of 1/ReturnScale.
DiscountedSum(rewards, i, g) ==
    SumSeq([j \in 1..(Len(rewards) - i + 1) |->
              rewards[i + j - 1] * Pow(g, j - 1)
                  * Pow(ReturnDen, MaxEpisodeLen - (j - 1))])

\* C14: the backward iteration R_T = 0, R_t = r_{t+1} + gamma R_{t+1} gives
\* every transition the discounted sum of the rewards that follow it; for
\* gamma = 0.9 and the rewards [1, 1, 1] the returns are [2.71, 1.9, 1.0].
C14_BackwardReturns ==
    /\ \A i \in (cursor + 1)..Len(episode) :
          returns[i] = DiscountedSum(episode, i, discount)
    /\ (cursor = 0 /\ episode = <<1, 1, 1>> /\ 10 * discount = 9 * ReturnDen) =>
          /\ 100 * returns[1] = 271 * ReturnScale
          /\ 10 * returns[2] = 19 * ReturnScale
          /\ returns[3] = ReturnScale

\* The returns of the episode [1, 1, 1] have been computed with gamma = 0.9.
C14_Witness ==
    /\ cursor = 0
    /\ episode = <<1, 1, 1>>
    /\ 10 * discount = 9 * ReturnDen
    /\ 100 * returns[1] = 271 * ReturnScale

\* A step of the loop that calls env.step.
CallsStep == loop'.env.current_step = loop.env.current_step + 1

\* C18: an episode of the interaction loop ends at the first step for which
\* terminal or truncated is true: while both are false the loop calls step
\* again, and it never calls step on an environment whose episode is over
\* before it has reset it.
C18_EpisodeEndsAtFirstDone ==
    [][/\ CallsStep => (~loop.env_over /\ loop.pc = "while")
       /\ CallsStep => loop'.done = (loop'.terminal \/ loop'.truncated)
       /\ (loop.pc = "while" /\ ~loop.env_over) => CallsStep
       /\ (loop.pc = "while" /\ loop.env_over) =>
             /\ loop'.pc = "for"
             /\ loop'.episode = loop.episode + 1
             /\ loop'.env = loop.env
       /\ (loop.env_over /\ ~loop'.env_over) =>
             (loop.pc = "for" /\ loop'.env = EnvReset)]_vars

\* The second episode has just ended at a terminal step, before the time
\* limit, after a first episode and a reset.
C18_Witness ==
    /\ loop.pc = "for"
    /\ loop.episode = 2
    /\ loop.done
    /\ loop.terminal
    /\ ~loop.truncated
    /\ loop.env.current_step >= 2

C21_ActOnlyAdvancesCounter ==
    [][pc = "act" =>
           /\ steps' = steps + 1
           /\ theta' = theta
           /\ theta_target' = theta_target
           /\ memory' = memory
           /\ snapshots' = snapshots
           /\ <<calls, history, result, heap>>' = <<calls, history, result, heap>>]_vars

\* An act call made by a trained agent on a non-empty memory: the networks
\* differ and the transition it observed is not stored yet.
C21_Witness ==
    /\ pc = "store"
    /\ steps = BatchSize + 1
    /\ size = BatchSize
    /\ theta # theta_target
    /\ update.ran

\* ------------------------------------------------------------- RandomEnv

\* observation_space.sample() of gym.spaces.Discrete(nb_states)
ObservationSpaceSample(nb_states) == 0..(nb_states - 1)

\* "if self.current_step % self.max_episode_steps == 0: truncated = True"
TruncatedOnceReached(current_step, max_episode_steps) ==
    current_step >= max_episode_steps

TruncatedOneLate(current_step, max_episode_steps) ==
    current_step % (max_episode_steps + 1) = 0

Truncated(current_step, max_episode_steps) ==
    current_step % max_episode_steps = 0

\* reset(): the time starts again, the state is sampled.
RandomEnvReset(e, sampled_state) ==
    [e EXCEPT !.current_step = 0,
              !.state = sampled_state,
              !.out = [NoOutcome EXCEPT !.op = "reset", !.next_state = sampled_state],
              !.since_reset = 0, !.done = FALSE, !.first_truncated = 0]

\* step(action): a sampled state, a sampled reward, one more step, truncated
\* when the number of steps is a multiple of max_episode_steps.  With
\* max_episode_steps = 0 the modulo raises ZeroDivisionError, after the state
\* and the time were changed.
RandomEnvStepByAction(e, act, sampled_state, sampled_reward) ==
    LET step_nr == e.current_step + 1
        moved == [e EXCEPT !.state = act % e.nb_states,
                           !.current_step = step_nr,
                           !.since_reset = e.since_reset + 1]
    IN IF e.max_episode_steps = 0
       THEN [moved EXCEPT !.out = [NoOutcome EXCEPT !.op = "step",
                                                    !.status = "ZeroDivisionError",
                                                    !.action = act]]
       ELSE LET trunc == Truncated(step_nr, e.max_episode_steps)
            IN [moved EXCEPT
                  !.out = [op |-> "step", status |-> "ok", action |-> act,
                           next_state |-> act % e.nb_states, reward |-> sampled_reward,
                           terminal |-> FALSE, truncated |-> trunc],
                  !.done = EpisodeDone(FALSE, trunc),
                  !.first_truncated =
                      IF trunc /\ e.first_truncated = 0 THEN e.since_reset + 1
                      ELSE e.first_truncated]

RandomEnvStep(e, act, sampled_state, sampled_reward) ==
    LET step_nr == e.current_step + 1
        moved == [e EXCEPT !.state = sampled_state,
                           !.current_step = step_nr,
                           !.since_reset = e.since_reset + 1]
    IN IF e.max_episode_steps = 0
       THEN [moved EXCEPT !.out = [NoOutcome EXCEPT !.op = "step",
                                                    !.status = "ZeroDivisionError",
                                                    !.action = act]]
       ELSE LET trunc == Truncated(step_nr, e.max_episode_steps)
            IN [moved EXCEPT
                  !.out = [op |-> "step", status |-> "ok", action |-> act,
                           next_state |-> sampled_state, reward |-> sampled_reward,
                           terminal |-> FALSE, truncated |-> trunc],
                  !.done = EpisodeDone(FALSE, trunc),
                  !.first_truncated =
                      IF trunc /\ e.first_truncated = 0 THEN e.since_reset + 1
                      ELSE e.first_truncated]

\* env.reset(): by the interaction loop at the start of an episode, that is
\* once the episode before is done; by a free caller at any time.
RandomEnvResetCall ==
    /\ renv.out.status = "ok"
    /\ renv.mode = "loop" => renv.done
    /\ \E sampled_state \in ObservationSpaceSample(renv.nb_states) :
          renv' = RandomEnvReset(renv, sampled_state)
    /\ UNCHANGED <<memory, heap, calls, history, result>>
    /\ UNCHANGED agentvars
    /\ UNCHANGED notRandomEnv

\* env.step(action): by the interaction loop while not done; by a free caller
\* at any time, also after a step that returned truncated.
RandomEnvStepCall ==
    /\ renv.out.status = "ok"
    /\ renv.since_reset < MaxCalls
    /\ renv.mode = "loop" => ~renv.done
    /\ \E act \in Actions, sampled_reward \in Rewards,
          sampled_state \in ObservationSpaceSample(renv.nb_states) :
          renv' = RandomEnvStep(renv, act, sampled_state, sampled_reward)
    /\ UNCHANGED <<memory, heap, calls, history, result>>
    /\ UNCHANGED agentvars
    /\ UNCHANGED notRandomEnv

\* RandomEnv(nb_states, nb_actions, max_episode_steps): the constructor ends
\* with a reset.
InitRandomEnv ==
    /\ InitMemory
    /\ IdleAgent
    /\ IdleSelection
    /\ IdleReturns
    /\ IdleLoop
    /\ IdlePPO
    /\ IdleTabular
    /\ IdleTrainer
    /\ IdleRecorder
    /\ IdleLibrary
    /\ \E mode \in {"loop", "free"}, nb_states \in 1..MaxNbStates,
          max_episode_steps \in 0..MaxLimit :
          \E sampled_state \in ObservationSpaceSample(nb_states) :
             renv = RandomEnvReset([NoRandomEnv EXCEPT
                                       !.mode = mode, !.nb_states = nb_states,
                                       !.max_episode_steps = max_episode_steps],
                                   sampled_state)

NextRandomEnv == RandomEnvResetCall \/ RandomEnvStepCall

SpecRandomEnv == InitRandomEnv /\ [][NextRandomEnv]_vars

\* The interaction loop keeps running: while not done it makes its next step.
FairSpecRandomEnv ==
    SpecRandomEnv /\ WF_vars(renv.mode = "loop" /\ RandomEnvStepCall)

\* ------------------------------------- tabular agents: Q-learning, Monte-Carlo

\* Q-learning: "the update() method has to be called after each step of the
\* episode, not at the end"; Monte-Carlo: "It should be called at the end of
\* an episode only, not after every step."
UpdateAfterStepAlways(agent) == TRUE

UpdateAfterStep(agent) == agent = "qlearning"

UpdateAtEnd(agent) == agent = "montecarlo"

\* Delta Q(s, a) = alpha (r + gamma max_a' Q(s', a') - Q(s, a)), the target
\* being r alone when s' is terminal.  Q-values are in units of 1/ReturnScale.
QLearningUpdate(table, tr) ==
    LET target == IF tr.done THEN tr.reward * ReturnScale
                  ELSE tr.reward * ReturnScale
                       + (TabGamma * MaxOf(table[tr.next_state])) \div ReturnDen
        old == table[tr.state][tr.action]
    IN [table EXCEPT ![tr.state][tr.action] = old + (target - old) \div AlphaDen]

\* update(episode) of the Monte-Carlo agent: backwards over the episode, the
\* return of each transition, and its Q-value moved towards it.
RECURSIVE MonteCarloUpdate(_, _, _)
MonteCarloUpdate(table, transitions, next_return) ==
    IF transitions = <<>> THEN table
    ELSE LET tr == transitions[Len(transitions)]
             ret == BackwardReturn(tr.reward, next_return, TabGamma)
             old == table[tr.state][tr.action]
         IN MonteCarloUpdate(
               [table EXCEPT ![tr.state][tr.action] = old + (ret - old) \div AlphaDenMC],
               SubSeq(transitions, 1, Len(transitions) - 1), ret)

\* env.step(action) of the environment of the tabular agents, which cuts an
\* episode after TabMaxSteps steps.
TabEnvStep(e, act, ns) ==
    [EnvStep(e, act, ns) EXCEPT !.truncated = (e.current_step + 1 >= TabMaxSteps)]

\* for episode in range(nb_episodes): state, info = env.reset(); done = False
TabReset ==
    /\ tab.pc = "reset"
    /\ tab.episode_nr < NumTabEpisodes
    /\ tab' = [tab EXCEPT !.pc = "act", !.env = EnvReset, !.state = EnvReset.state,
                          !.done = FALSE, !.episode = <<>>, !.env_steps = 0,
                          !.update_calls = 0, !.Q_start = tab.Q]
    /\ UNCHANGED <<memory, heap, calls, history, result>>
    /\ UNCHANGED agentvars
    /\ UNCHANGED notTabular

\* while not done: action = agent.act(state), epsilon-greedy on the Q-table.
TabAct ==
    /\ tab.pc = "act"
    /\ \E rnd \in RngRandom, sampled \in ActionSpaceSample :
          tab' = [tab EXCEPT !.pc = "step",
                             !.action = EpsilonGreedy(tab.Q[tab.state], 1, rnd, sampled)]
    /\ UNCHANGED <<memory, heap, calls, history, result>>
    /\ UNCHANGED agentvars
    /\ UNCHANGED notTabular

\* next_state, reward, terminal, truncated, info = env.step(action); the
\* Monte-Carlo agent appends the transition to the episode; state = next_state.
TabStep ==
    /\ tab.pc = "step"
    /\ \E ns \in EnvStates :
          LET o == TabEnvStep(tab.env, tab.action, ns)
              d == EpisodeDone(o.terminal, o.truncated)
              tr == Transition(tab.state, tab.action, o.reward, ns, d)
          IN tab' = [tab EXCEPT
                        !.pc = IF UpdateAfterStep(tab.agent) THEN "update"
                               ELSE IF d THEN "end" ELSE "act",
                        !.env = [state |-> ns,
                                 current_step |-> tab.env.current_step + 1],
                        !.trans = tr,
                        !.episode = IF UpdateAtEnd(tab.agent)
                                    THEN Append(tab.episode, tr) ELSE tab.episode,
                        !.state = ns,
                        !.done = d,
                        !.env_steps = tab.env_steps + 1]
    /\ UNCHANGED <<memory, heap, calls, history, result>>
    /\ UNCHANGED agentvars
    /\ UNCHANGED notTabular

\* agent.update(state, action, reward, next_state, done) after the step.
TabUpdate ==
    /\ tab.pc = "update"
    /\ tab' = [tab EXCEPT !.pc = IF tab.done THEN "end" ELSE "act",
                          !.Q = QLearningUpdate(tab.Q, tab.trans),
                          !.update_calls = tab.update_calls + 1,
                          !.updated_with = tab.trans]
    /\ UNCHANGED <<memory, heap, calls, history, result>>
    /\ UNCHANGED agentvars
    /\ UNCHANGED notTabular

\* The episode is over; the Monte-Carlo agent now calls update(episode).
TabEndEpisode ==
    /\ tab.pc = "end"
    /\ tab' = [tab EXCEPT
                  !.pc = "reset",
                  !.episode_nr = tab.episode_nr + 1,
                  !.Q = IF UpdateAtEnd(tab.agent)
                        THEN MonteCarloUpdate(tab.Q, tab.episode, 0) ELSE tab.Q,
                  !.update_calls = IF UpdateAtEnd(tab.agent)
                                   THEN tab.update_calls + 1 ELSE tab.update_calls]
    /\ UNCHANGED <<memory, heap, calls, history, result>>
    /\ UNCHANGED agentvars
    /\ UNCHANGED notTabular

InitTabular ==
    /\ InitMemory
    /\ IdleAgent
    /\ IdleSelection
    /\ IdleReturns
    /\ IdleLoop
    /\ IdlePPO
    /\ IdleRandomEnv
    /\ IdleTrainer
    /\ IdleRecorder
    /\ IdleLibrary
    /\ \E agent \in {"qlearning", "montecarlo"} :
          tab = [NoTabular EXCEPT !.agent = agent]

NextTabular == TabReset \/ TabAct \/ TabStep \/ TabUpdate \/ TabEndEpisode

SpecTabular == InitTabular /\ [][NextTabular]_vars

\* ------------------------------------------------------ train() of a network

\* data.size(0): the samples of a minibatch of the loader.
BatchLen(batch_idx) == IF batch_idx < NumTrainBatches THEN TrainBatchSize ELSE 1

DatasetLen == (NumTrainBatches - 1) * TrainBatchSize + 1

\* optimizer.zero_grad(): the gradients are reinitialized.
ZeroGradKeeps(grad) == grad

ZeroGrad(grad) == <<>>

\* loss.backward(): the gradients of the minibatch are added to .grad.
Backpropagate(grad, batch_idx) == Append(grad, batch_idx)

\* train(model, device, train_loader, optimizer, loss_function) is called for
\* an epoch: model.train(), the metrics start at 0.  The gradients are what
\* the epoch before left.
TrainCall ==
    /\ trainer.pc = "idle"
    /\ trainer.epoch < NumEpochs
    /\ trainer' = [trainer EXCEPT !.pc = "for", !.batch_idx = 0, !.applied = <<>>,
                                  !.training_loss = 0, !.correct = 0, !.total = 0]
    /\ UNCHANGED <<memory, heap, calls, history, result>>
    /\ UNCHANGED agentvars
    /\ UNCHANGED notTrainer

\* for batch_idx, (data, target) in enumerate(train_loader): the next minibatch.
TrainNextBatch ==
    /\ trainer.pc = "for"
    /\ trainer.batch_idx < NumTrainBatches
    /\ trainer' = [trainer EXCEPT !.pc = "zero_grad",
                                  !.batch_idx = trainer.batch_idx + 1]
    /\ UNCHANGED <<memory, heap, calls, history, result>>
    /\ UNCHANGED agentvars
    /\ UNCHANGED notTrainer

\* optimizer.zero_grad()
TrainZeroGrad ==
    /\ trainer.pc = "zero_grad"
    /\ trainer' = [trainer EXCEPT !.pc = "forward", !.grad = ZeroGrad(trainer.grad)]
    /\ UNCHANGED <<memory, heap, calls, history, result>>
    /\ UNCHANGED agentvars
    /\ UNCHANGED notTrainer

\* output = model(data); loss = loss_function(output, target);
\* training_loss += loss.item() * data.size(0)
TrainForward ==
    /\ trainer.pc = "forward"
    /\ \E loss_item \in {0, 1}, hits \in 0..BatchLen(trainer.batch_idx) :
          trainer' = [trainer EXCEPT
                         !.pc = "backward", !.loss = loss_item, !.hits = hits,
                         !.training_loss = trainer.training_loss
                                           + loss_item * BatchLen(trainer.batch_idx)]
    /\ UNCHANGED <<memory, heap, calls, history, result>>
    /\ UNCHANGED agentvars
    /\ UNCHANGED notTrainer

\* loss.backward()
TrainBackward ==
    /\ trainer.pc = "backward"
    /\ trainer' = [trainer EXCEPT !.pc = "step",
                                  !.grad = Backpropagate(trainer.grad, trainer.batch_idx)]
    /\ UNCHANGED <<memory, heap, calls, history, result>>
    /\ UNCHANGED agentvars
    /\ UNCHANGED notTrainer

\* optimizer.step(), then the metrics of the minibatch: total and correct.
TrainOptimizerStep ==
    /\ trainer.pc = "step"
    /\ trainer' = [trainer EXCEPT
                      !.pc = "for",
                      !.applied = Append(trainer.applied, trainer.grad),
                      !.total = trainer.total + BatchLen(trainer.batch_idx),
                      !.correct = trainer.correct + trainer.hits]
    /\ UNCHANGED <<memory, heap, calls, history, result>>
    /\ UNCHANGED agentvars
    /\ UNCHANGED notTrainer

\* After the last minibatch: training_loss /= len(train_loader.dataset),
\* accuracy = 100 * correct / total, both returned (kept here as the two
\* terms of each quotient).
TrainReturn ==
    /\ trainer.pc = "for"
    /\ trainer.batch_idx = NumTrainBatches
    /\ trainer' = [trainer EXCEPT
                      !.pc = "idle", !.epoch = trainer.epoch + 1,
                      !.returned = [loss_sum |-> trainer.training_loss,
                                    dataset |-> DatasetLen,
                                    correct |-> 100 * trainer.correct,
                                    total |-> trainer.total]]
    /\ UNCHANGED <<memory, heap, calls, history, result>>
    /\ UNCHANGED agentvars
    /\ UNCHANGED notTrainer

InitTrainer ==
    /\ InitMemory
    /\ IdleAgent
    /\ IdleSelection
    /\ IdleReturns
    /\ IdleLoop
    /\ IdlePPO
    /\ IdleRandomEnv
    /\ IdleTabular
    /\ IdleRecorder
    /\ IdleLibrary
    /\ trainer = NoTrainer

NextTrainer ==
    \/ TrainCall \/ TrainNextBatch \/ TrainZeroGrad \/ TrainForward
    \/ TrainBackward \/ TrainOptimizerStep \/ TrainReturn

SpecTrainer == InitTrainer /\ [][NextTrainer]_vars

\* ----------------------------------------------------------- GymRecorder

\* "for frame in frames: self._frames.append(np.array(frame))"
RECURSIVE RecordFrames(_, _)
RecordFrames(frames, rendered_frames) ==
    IF rendered_frames = <<>> THEN frames
    ELSE RecordFrames(Append(frames, Head(rendered_frames)), Tail(rendered_frames))

\* "del self._frames; self._frames = []"
ClearFramesKeeps(frames) == frames

ClearFrames(frames) == <<>>

\* recorder.record(env.render()): the frames the environment has rendered
\* since the last call, in their order.
RecorderRecord ==
    /\ \E count \in 0..MaxRendered :
          /\ recorder.rendered + count <= MaxFrames
          /\ recorder' = [recorder EXCEPT
                 !.frames = RecordFrames(recorder.frames,
                                [i \in 1..count |-> recorder.rendered + i]),
                 !.rendered = recorder.rendered + count]
    /\ UNCHANGED <<memory, heap, calls, history, result>>
    /\ UNCHANGED agentvars
    /\ UNCHANGED notRecorder

\* recorder.make_video(filename): the clip is made of the frames and written
\* as a gif, then the frames are dropped.  When making the directory, the clip
\* or the gif raises, the frames are as before.
RecorderMakeVideo ==
    /\ recorder.made < MaxVideoCalls
    /\ \E status \in {"ok", "raised"} :
          recorder' = [recorder EXCEPT
              !.made = recorder.made + 1,
              !.status = status,
              !.videos = IF status = "ok"
                         THEN Append(recorder.videos, recorder.frames)
                         ELSE recorder.videos,
              !.frames = IF status = "ok" THEN ClearFrames(recorder.frames)
                         ELSE recorder.frames]
    /\ UNCHANGED <<memory, heap, calls, history, result>>
    /\ UNCHANGED agentvars
    /\ UNCHANGED notRecorder

InitRecorder ==
    /\ InitMemory
    /\ IdleAgent
    /\ IdleSelection
    /\ IdleReturns
    /\ IdleLoop
    /\ IdlePPO
    /\ IdleRandomEnv
    /\ IdleTabular
    /\ IdleTrainer
    /\ IdleLibrary
    /\ recorder = NoRecorder

NextRecorder == RecorderRecord \/ RecorderMakeVideo

SpecRecorder == InitRecorder /\ [][NextRecorder]_vars

\* ------------------------------------------------------ library DQN loop

\* The buffer of a worker after it stored count more transitions: a
\* VectorReplayBuffer of total_size for the workers gives each of them the
\* same share, and a full share keeps the most recent transitions.
StoredAfterUnbounded(held, count, total_size, workers) == held + count

StoredAfter(held, count, total_size, workers) ==
    Min(held + count, total_size \div workers)

\* collector.collect(n_step=...): the steps are made by the workers in turn,
\* each storing its transitions in its own buffer.
CollectSteps(stored, n_step) ==
    [w \in DOMAIN stored |->
        StoredAfter(stored[w], n_step \div LibWorkers, LibTotalSize, LibWorkers)]

RECURSIVE SumTo(_, _)
SumTo(stored, last) == IF last = 0 THEN 0 ELSE stored[last] + SumTo(stored, last - 1)

\* len(collector.buffer)
BufferLen(stored) == SumTo(stored, LibWorkers)

\* collector.collect(n_step=1000, random=True): the pre-fill.
LibPrefillBuffer ==
    /\ lib.pc = "prefill"
    /\ lib' = [lib EXCEPT !.pc = "collect",
                          !.stored = CollectSteps(lib.stored, LibPrefill)]
    /\ UNCHANGED <<memory, heap, calls, history, result>>
    /\ UNCHANGED agentvars
    /\ UNCHANGED notLibrary

\* for iteration in range(1000): policy.train();
\* result = collector.collect(n_step=100)
LibCollectCall ==
    /\ lib.pc = "collect"
    /\ lib.iteration < LibIterations
    /\ lib' = [lib EXCEPT !.pc = "update",
                          !.stored = CollectSteps(lib.stored, LibCollect),
                          !.collects = lib.collects + 1]
    /\ UNCHANGED <<memory, heap, calls, history, result>>
    /\ UNCHANGED agentvars
    /\ UNCHANGED notLibrary

\* policy.update(buffer=collector.buffer, sample_size=0, batch_size=64, repeat=10)
LibPolicyUpdate ==
    /\ lib.pc = "update"
    /\ lib' = [lib EXCEPT !.pc = "test", !.updates = lib.updates + 1,
                          !.seen = BufferLen(lib.stored)]
    /\ UNCHANGED <<memory, heap, calls, history, result>>
    /\ UNCHANGED agentvars
    /\ UNCHANGED notLibrary

\* policy.eval(); result = test_collector.collect(n_episode=10): the test
\* collector has no buffer.
LibTest ==
    /\ lib.pc = "test"
    /\ lib' = [lib EXCEPT !.pc = "collect", !.iteration = lib.iteration + 1]
    /\ UNCHANGED <<memory, heap, calls, history, result>>
    /\ UNCHANGED agentvars
    /\ UNCHANGED notLibrary

InitLibrary ==
    /\ InitMemory
    /\ IdleAgent
    /\ IdleSelection
    /\ IdleReturns
    /\ IdleLoop
    /\ IdlePPO
    /\ IdleRandomEnv
    /\ IdleTabular
    /\ IdleTrainer
    /\ IdleRecorder
    /\ lib = NoLibrary

NextLibrary == LibPrefillBuffer \/ LibCollectCall \/ LibPolicyUpdate \/ LibTest

SpecLibrary == InitLibrary /\ [][NextLibrary]_vars

\* -------------------------------------------------------------- properties

\* What printing the buffer shows: the transitions in its arrays.
Shown == {ppo.arrays[i] : i \in 1..BufferSize} \ {ZeroEntry}

\* C22: directly after a clear the buffer's size is 0, inspecting it shows no
\* transition stored before the clear, and sampling fails.
C22_ClearIsImmediate ==
    (ppo.pc = "collect" /\ ppo.iteration >= 1) =>
        /\ Len(ppo.buffer) = 0
        /\ Shown = {}
        /\ ppo.sample # "ok"

\* The part of C22 the buffer does keep: after a clear it counts no transition
\* and every sample call fails until the next collect.
C22_ClearedBufferCannotBeSampled ==
    (ppo.pc = "collect" /\ ppo.iteration >= 1) =>
        /\ Len(ppo.buffer) = 0
        /\ ppo.sample # "ok"

C22_Witness ==
    /\ ppo.pc = "collect" /\ ppo.iteration >= 1
    /\ ppo.sample = "error"
    /\ Shown # {}

\* C23: once both computations have gone through the episode, the naive
\* double loop and the backward recursion have the same return for every
\* transition.
C23_NaiveEqualsBackward ==
    (cursor = 0 /\ naive.t > Len(episode)) => naive.returns = returns

\* What the two computations do share: the return of an episode of a single
\* transition.
C23_AgreeOnSingleTransition ==
    (cursor = 0 /\ naive.t > Len(episode) /\ Len(episode) = 1) =>
        naive.returns = returns

\* C24: with max_episode_steps >= 1, terminal is False on every step, the
\* first step after a reset that returns truncated is the
\* max_episode_steps-th, and the interaction loop, which steps while not
\* done, comes to done after exactly max_episode_steps steps.
C24_TruncatesAfterMaxEpisodeSteps ==
    /\ [](renv.max_episode_steps >= 1 =>
             /\ ~renv.out.terminal
             /\ renv.first_truncated \in {0, renv.max_episode_steps}
             /\ renv.first_truncated = 0 <=> renv.since_reset < renv.max_episode_steps
             /\ renv.mode = "loop" =>
                    /\ renv.since_reset <= renv.max_episode_steps
                    /\ renv.done <=> renv.since_reset = renv.max_episode_steps)
    /\ (renv.mode = "loop" /\ renv.max_episode_steps >= 1 /\ renv.out.op = "reset")
          ~> (renv.done /\ renv.since_reset = renv.max_episode_steps)

C24_Witness ==
    /\ renv.mode = "loop"
    /\ renv.max_episode_steps = MaxLimit
    /\ renv.done
    /\ renv.out.truncated
    /\ renv.since_reset = MaxLimit

\* What a step call with this action can return and do to the environment.
StepOutcomes(e, act) ==
    { LET after == RandomEnvStep(e, act, sampled_state, sampled_reward)
      IN [status |-> after.out.status,
          next_state |-> after.out.next_state,
          terminal |-> after.out.terminal,
          truncated |-> after.out.truncated,
          state |-> after.state,
          steps_added |-> after.current_step - e.current_step] :
        sampled_state \in ObservationSpaceSample(e.nb_states),
        sampled_reward \in Rewards }

\* C25: from the same state of the environment, every action has the same
\* possible outcomes (next_state, terminal, truncated) and the same change of
\* current_step.
C25_StepIgnoresAction ==
    [][(renv'.out.op = "step" /\ renv'.since_reset = renv.since_reset + 1) =>
          LET got == [status |-> renv'.out.status,
                      next_state |-> renv'.out.next_state,
                      terminal |-> renv'.out.terminal,
                      truncated |-> renv'.out.truncated,
                      state |-> renv'.state,
                      steps_added |-> renv'.current_step - renv.current_step]
          IN \A other \in Actions :
                /\ got \in StepOutcomes(renv, other)
                /\ StepOutcomes(renv, other) = StepOutcomes(renv, renv'.out.action)]_vars

C25_Witness ==
    /\ renv.out.op = "step"
    /\ renv.out.status = "ok"
    /\ renv.nb_states = MaxNbStates
    /\ renv.out.action = 1
    /\ renv.out.next_state = 0
    /\ renv.since_reset >= 2

\* C29 as stated: whatever the calls made, state is an index below nb_states,
\* current_step is the number of steps since the last reset, no step fails
\* and a step returns truncated exactly when current_step is a positive
\* multiple of max_episode_steps.
C29_AlwaysSteps ==
    /\ renv.state \in 0..(renv.nb_states - 1)
    /\ renv.current_step = renv.since_reset
    /\ renv.out.status = "ok"
    /\ renv.out.op = "step" =>
          (renv.out.truncated <=>
              \E m \in 1..MaxCalls : renv.current_step = m * renv.max_episode_steps)

\* C29, amended: the same for max_episode_steps >= 1; with
\* max_episode_steps = 0 every step raises ZeroDivisionError, having changed
\* state and current_step.
C29_StepsWithPositiveLimit ==
    /\ renv.state \in 0..(renv.nb_states - 1)
    /\ renv.current_step = renv.since_reset
    /\ renv.out.op = "step" =>
          IF renv.max_episode_steps >= 1
          THEN /\ renv.out.status = "ok"
               /\ renv.out.truncated <=>
                      \E m \in 1..MaxCalls :
                          renv.current_step = m * renv.max_episode_steps
          ELSE renv.out.status = "ZeroDivisionError"

\* A free caller has stepped on after a truncated step and met the second
\* one.
C29_Witness ==
    /\ renv.mode = "free"
    /\ renv.max_episode_steps = MaxLimit
    /\ renv.current_step = 2 * MaxLimit
    /\ renv.out.truncated
    /\ renv.first_truncated = MaxLimit

\* C26: Q-learning: every step of the environment is followed by one update
\* with the transition just made, before the next action is selected;
\* Monte-Carlo: no update while the episode is generated, the Q-table stays
\* as it was at the start of the episode, and one update call at its end.
C26_UpdateTiming ==
    /\ tab.agent = "qlearning" =>
          /\ tab.pc \in {"act", "end", "step"} =>
                /\ tab.update_calls = tab.env_steps
                /\ tab.env_steps >= 1 => tab.updated_with = tab.trans
          /\ tab.pc = "update" => tab.update_calls = tab.env_steps - 1
          /\ (tab.pc = "reset" /\ tab.episode_nr >= 1) =>
                tab.update_calls = tab.env_steps
    /\ tab.agent = "montecarlo" =>
          /\ tab.pc \in {"act", "step", "end"} =>
                /\ tab.update_calls = 0
                /\ tab.Q = tab.Q_start
          /\ tab.pc # "update"
          /\ (tab.pc = "reset" /\ tab.episode_nr >= 1) => tab.update_calls = 1

\* A Monte-Carlo agent that has learned from a first episode is in the middle
\* of its second one.
C26_Witness ==
    /\ tab.agent = "montecarlo"
    /\ tab.episode_nr = 1
    /\ tab.pc = "act"
    /\ tab.env_steps = 1
    /\ tab.Q # ZeroParams

\* A Q-learning agent has changed its Q-table in the middle of an episode.
C26_WitnessQLearning ==
    /\ tab.agent = "qlearning"
    /\ tab.pc = "act"
    /\ tab.env_steps = 1
    /\ tab.Q # tab.Q_start

\* C27: in train() every optimizer step applies the gradient of the current
\* minibatch alone, nothing of an earlier minibatch or epoch being left in
\* it, and each minibatch gets exactly one optimizer step, made after its
\* backward pass.
C27_NoGradientAccumulation ==
    /\ \A i \in 1..Len(trainer.applied) : trainer.applied[i] = <<i>>
    /\ trainer.pc \in {"for", "idle"} => Len(trainer.applied) = trainer.batch_idx
    /\ trainer.pc \in {"zero_grad", "forward", "backward", "step"} =>
          Len(trainer.applied) = trainer.batch_idx - 1
    /\ trainer.pc \in {"forward", "backward"} => trainer.grad = <<>>
    /\ trainer.pc = "step" => trainer.grad = <<trainer.batch_idx>>

\* The second epoch starts with the gradients of the last minibatch of the
\* first one still in place, and has made its first optimizer step.
C27_Witness ==
    /\ trainer.epoch = 1
    /\ trainer.pc = "for"
    /\ trainer.batch_idx = 1
    /\ trainer.applied = <<(<<1>>)>>
    /\ trainer.returned.total = DatasetLen

RECURSIVE Concat(_)
Concat(seqs) == IF seqs = <<>> THEN <<>> ELSE Head(seqs) \o Concat(Tail(seqs))

\* C28: the frames of the videos made, one video after the other, followed
\* by the frames the recorder holds, are the frames rendered, each once and
\* in the order they were recorded; record appends to the frames held; a
\* make_video that succeeds makes its video of exactly the frames held and
\* leaves none, one that fails leaves frames and videos as they were.
C28_FramesInOrderOnceEach ==
    /\ [](Concat(recorder.videos) \o recorder.frames
             = [i \in 1..recorder.rendered |-> i])
    /\ [][/\ recorder'.made = recorder.made =>
                /\ recorder'.videos = recorder.videos
                /\ SubSeq(recorder'.frames, 1, Len(recorder.frames)) = recorder.frames
          /\ (recorder'.made # recorder.made /\ recorder'.status = "ok") =>
                /\ recorder'.videos = Append(recorder.videos, recorder.frames)
                /\ recorder'.frames = <<>>
          /\ (recorder'.made # recorder.made /\ recorder'.status = "raised") =>
                /\ recorder'.videos = recorder.videos
                /\ recorder'.frames = recorder.frames]_vars

\* Two videos were made, a failed make_video between them, and the second
\* one has the frames recorded before and after the failure.
C28_Witness ==
    /\ Len(recorder.videos) = 2
    /\ recorder.made = 3
    /\ Len(recorder.videos[1]) >= 1
    /\ Len(recorder.videos[2]) >= 2
    /\ recorder.frames = <<>>

====
